---- MODULE Spec2Model ----
(***************************************************************************)
(* A model of src/src/dataset.ts: the dataset generators of the            *)
(* playground, their random and geometric primitives, and shuffle.         *)
(*                                                                         *)
(* Numbers.  Coordinates, noise levels and variances are kept in           *)
(* thousandths (1000 stands for 1.0); a value of Math.random() is kept in  *)
(* twenty-fourths (k stands for k/24, 0 <= k < 24); ratios of line         *)
(* descriptors are kept in hundredths.  The values drawn are chosen so     *)
(* that every product and quotient the code forms is exact in these units. *)
(* Values the code computes with sqrt, log, sin or cos of such numbers are *)
(* kept as the arguments that determine them (see NormalValue, SpiralX,    *)
(* ScaledLabel).                                                           *)
(***************************************************************************)
EXTENDS Integers, Sequences, FiniteSets, Bags, TLC

\* ------------------------------------------------------------------ bounds

\* Largest |numSamples| given to a generator under an unconstrained random source.
MaxSamples == 2
\* Largest numSamples (besides 100) given to the line-based generator.
MaxLineSamples == 16
\* Largest length of an array given to shuffle.
MaxLen == 3

\* ----------------------------------------------------------------- inputs

\* The values Math.random() yields on the quarter grid: 0, 1/4, 1/2, 3/4.
Quarters == {0, 6, 12, 18}
\* The values Math.random() yields on the full grid: k/24.
Twentyfourths == 0 .. 23
\* Noise levels: -0.5, 0 and 0.5.
Noises == {-500, 0, 500}
\* The elements of the arrays given to shuffle.
Elements == 1 .. MaxLen

Abs(a) == IF a < 0 THEN -a ELSE a

RECURSIVE SeqsUpTo(_, _)
SeqsUpTo(S, n) ==
  IF n = 0 THEN {<<>>}
  ELSE LET shorter == SeqsUpTo(S, n - 1)
       IN  shorter \cup {Append(q, e) : q \in {t \in shorter : Len(t) = n - 1}, e \in S}

RECURSIVE BagOfSeq(_)
BagOfSeq(q) ==
  IF q = <<>> THEN EmptyBag ELSE BagOfSeq(Tail(q)) (+) SetToBag({Head(q)})

\* ------------------------------------------------- primitives (pure functions)

\* randUniform(a, b) = Math.random() * (b - a) + a, for Math.random() = k/24.
RandUniform(k, a, b) == (k * (b - a)) \div 24 + a

\* randOnLine(a, b) for t = Math.random() = k/24.
RandOnLine(k, a, b) ==
  [x |-> a.x + ((b.x - a.x) * k) \div 24,
   y |-> a.y + ((b.y - a.y) * k) \div 24]

\* u * noise, both in thousandths.
TimesNoise(u, nz) == (u * nz) \div 1000

\* dist(a, b) squared: dx * dx + dy * dy.  dist itself is its square root, and is
\* only ever compared with, or mapped monotonically from, non-negative numbers.
Dist2(a, b) ==
  LET dx == a.x - b.x
      dy == a.y - b.y
  IN  dx * dx + dy * dy

\* d3.scale.linear().domain([d0, d1]).range([r0, r1]) applied to v (no clamp).
LinearScale(d0, d1, r0, r1, v) == r0 + ((v - d0) * (r1 - r0)) \div (d1 - d0)

\* classifyTwoGaussData: variance = varianceScale(noise).
Variance(nz) == LinearScale(0, 500, 500, 4000, nz)

\* regressPlane: getLabel(x, y) = labelScale(x + y).
PlaneLabel(px, py) == LinearScale(-10000, 10000, -1000, 1000, px + py)

\* `i < numSamples / 2` under JavaScript's real-valued division.
LessThanHalfInt(k, n) == k < n \div 2
LessThanHalf(k, n) == 2 * k < n

\* `i < numSamples`.
LessThanAbs(k, n) == k < Abs(n)
LessThan(k, n) == k < n

\* The value normalRandom returns, mean + sqrt(variance) * sqrt(-2 log(s) / s) * v1,
\* kept as: whether it is NaN (s = 0 gives Infinity * 0; a negative variance gives
\* sqrt of a negative number), its mean, and the side of the mean it lies on
\* (s = 1 gives log(s) = 0, v1 = 0 gives a zero product: the mean itself).
NormalValue(mean, variance, w1, w) ==
  IF w = 0 \/ variance < 0
    THEN [nan |-> TRUE, mean |-> 0, side |-> 0]
    ELSE [nan |-> FALSE, mean |-> mean,
          side |-> IF w = 576 \/ w1 = 0 THEN 0 ELSE IF w1 < 0 THEN -1 ELSE 1]

\* The do-while test of normalRandom: `s > 1`, s in 1/576.
RejectedBelow(w) == w < 576
Rejected(w) == w > 576

\* Math.sin and Math.cos of the angle 2 * PI * k / 24, for k on the quarter grid
\* (the exact values; the code's differ from them by floating-point rounding).
Sin(k) == CASE k = 0 -> 0 [] k = 6 -> 1 [] k = 12 -> 0 [] k = 18 -> -1
Cos(k) == CASE k = 0 -> 1 [] k = 6 -> 0 [] k = 12 -> -1 [] k = 18 -> 0

\* classifyCircleData: radius.
radius == 5000

\* getCircleLabel(p, center): dist(p, center) < radius * 0.5.
GetCircleLabelOuter(p, center) ==
  IF Dist2(p, center) < radius * radius THEN 1 ELSE -1
GetCircleLabelBinary(p, center) ==
  IF 4 * Dist2(p, center) < radius * radius THEN 1 ELSE 0
GetCircleLabel(p, center) ==
  IF 4 * Dist2(p, center) < radius * radius THEN 1 ELSE -1

\* getXORLabel(p): p.x * p.y >= 0.
GetXORLabel(p) == IF p.x * p.y >= 0 THEN 1 ELSE -1

\* classifyXORData: x += x > 0 ? padding : -padding.
Padded(c) == c + (IF c > 0 THEN 300 ELSE -300)

\* regressGaussian: the six centers, [cx, cy, sign].
gaussians ==
  << <<-4000, 2500, 1>>, <<0, 2500, -1>>, <<4000, 2500, 1>>,
     <<-4000, -2500, -1>>, <<0, -2500, 1>>, <<4000, -2500, -1>> >>

\* sign * labelScale(d) for the clamped scale domain [0, 2] -> range [1, 0], kept as
\* the sign and the clamped squared distance: the value is
\* sign * (1 - sqrt(d2) / 2000), which is 0 once d2 reaches 2000 * 2000.
ScaledLabel(sign, d2) ==
  [sign |-> sign, d2 |-> IF d2 > 2000 * 2000 THEN 2000 * 2000 ELSE d2]

\* `let label = 0`.
ZeroLabel == [sign |-> 0, d2 |-> 2000 * 2000]

\* Math.abs(newLabel) > Math.abs(label): a strictly smaller clamped distance.
Greater(newLabel, old) ==
  LET pos(l) == l.sign = 1 /\ l.d2 < 2000 * 2000
      neg(l) == l.sign = -1 /\ l.d2 < 2000 * 2000
  IN  \/ pos(newLabel) /\ (pos(old) => newLabel.d2 < old.d2)
      \/ ~pos(newLabel) /\ ~neg(newLabel) /\ neg(old)
      \/ neg(newLabel) /\ neg(old) /\ newLabel.d2 > old.d2
AbsGreater(newLabel, old) == newLabel.d2 < old.d2

\* regressGaussian: getLabel(x, y), the forEach over gaussians from index g on.
RECURSIVE GetLabelFrom(_, _, _, _)
GetLabelFrom(px, py, g, lab) ==
  IF g > Len(gaussians) THEN lab
  ELSE LET c == gaussians[g]
           newLabel == ScaledLabel(c[3], Dist2([x |-> px, y |-> py],
                                               [x |-> c[1], y |-> c[2]]))
       IN  GetLabelFrom(px, py, g + 1,
                        IF AbsGreater(newLabel, lab) THEN newLabel ELSE lab)

GetLabel(px, py) == GetLabelFrom(px, py, 1, ZeroLabel)

\* A line descriptor: label, ratio (hundredths), p0 and p1 (thousandths).
Line(lab, ratio, x0, y0, x1, y1) ==
  [label |-> lab, ratio |-> ratio,
   p0 |-> [x |-> x0, y |-> y0], p1 |-> [x |-> x1, y |-> y1]]

\* classifyOxtuData: props.
OxtuProps ==
  << Line(1, 100, -4000, 3000, 1500, 3000),
     Line(1, 100, -800, 4500, -800, -2000),
     Line(1, 8, -900, -1600, -2000, -1000),
     Line(-1, 80, -1600, 2000, -4000, -1000),
     Line(-1, 20, 1700, -1500, 2200, -2500),
     Line(-1, 20, 3000, -1000, 3500, -2000),
     Line(1, 20, 5000, -1000, 4700, -3000),
     Line(1, 30, 4700, -3000, 2000, -4600) >>

\* classifyJavaData: props.
JavaProps ==
  << Line(1, 100, -4000, 500, -3000, 0),
     Line(-1, 100, -4000, 2000, -3000, 1000),
     Line(-1, 150, -1000, 1000, -2000, -1000),
     Line(-1, 150, -4000, -1700, -2000, -1000),
     Line(1, 50, -2000, 3000, -2000, 2000),
     Line(-1, 50, -1000, 3000, -1000, 2000),
     Line(-1, 100, -1500, -3500, 500, -2500),
     Line(-1, 50, 0, -3500, 500, -2500),
     Line(1, 80, -1200, -2000, -400, -4500),
     Line(1, 50, 2000, 1000, 2000, 0),
     Line(1, 100, 1000, -2000, 2000, 0),
     Line(-1, 150, 3500, 1000, 4500, -2000),
     Line(1, 50, 3000, 3000, 3000, 2000),
     Line(-1, 50, 4000, 3000, 4000, 2000) >>

\* Descriptor lists given to makeClassifyDataWithLines directly: ratios 1 and 3,
\* and ratios 1, 1 and 1.
OneThreeProps ==
  << Line(1, 100, -4000, 0, 4000, 0), Line(-1, 300, 0, -4000, 0, 4000) >>
ThirdsProps ==
  << Line(1, 100, -4000, 0, 4000, 0), Line(-1, 100, 0, -4000, 0, 4000),
     Line(1, 100, -2000, -2000, 2000, 2000) >>

\* makeClassifyDataWithLines: randRadius = 3.
randRadius == 3000

\* props.reduce((sum, x) => sum + x.ratio, 0).
RECURSIVE SumOfRatio(_)
SumOfRatio(ps) == IF ps = <<>> THEN 0 ELSE Head(ps).ratio + SumOfRatio(Tail(ps))

\* Math.floor(prop.ratio / sumOfRatio * numSamples).
QuotaCeil(prop, ps, n) == -((-(prop.ratio * n)) \div SumOfRatio(ps))
Quota(prop, ps, n) == (prop.ratio * n) \div SumOfRatio(ps)

\* shuffle: index = Math.floor(Math.random() * counter), Math.random() = k/24, in
\* a call on the array a.
RandomIndexWhole(k, cnt, a) == (k * Len(a)) \div 24
RandomIndex(k, cnt, a) == (k * cnt) \div 24

\* shuffle: the array after `temp = array[counter]; array[counter] = array[index];
\* array[index] = temp`, for 0-based counter and index.
SwapCopy(a, cnt, idx) == [a EXCEPT ![cnt + 1] = a[idx + 1]]
Swap(a, cnt, idx) == [a EXCEPT ![cnt + 1] = a[idx + 1], ![idx + 1] = a[cnt + 1]]

\* ------------------------------------------------------------------ state

VARIABLES
  gen,           \* the function called
  numSamples,    \* its argument numSamples
  noise,         \* its argument noise
  randomValues,  \* the values Math.random() can yield during the call
  pc,            \* the position in the function's code
  points,        \* the function's local `points`
  i,             \* the loop variable i
  phase,         \* 1 in the first of a generator's two loops, 2 in the second
  array,         \* shuffle: its argument, changed in place
  counter,       \* shuffle: counter
  input,         \* shuffle: the array as it was at the call
  choices,       \* shuffle: the values index has taken, in order
  v1, v2, s,     \* normalRandom: its locals (-1: not assigned yet)
  x,             \* genGauss: x, while y is being drawn
  props,         \* makeClassifyDataWithLines: props
  propIdx,       \* makeClassifyDataWithLines: the descriptors of props done
  num,           \* makeClassifyDataWithLines: num
  j,             \* makeClassifyDataWithLines: j
  q,             \* getLabel: its arguments x and y
  label          \* getLabel: its result

vars ==
  <<gen, numSamples, noise, randomValues, pc, points, i, phase, array, counter,
    input, choices, v1, v2, s, x, props, propIdx, num, j, q, label>>

callVars == <<gen, numSamples, noise, randomValues>>
shuffleVars == <<array, counter, input, choices>>
normalVars == <<v1, v2, s, x>>
lineVars == <<props, propIdx, num, j>>
labelVars == <<q, label>>

\* The generators whose loops run while i < numSamples / 2, twice.
HalfGenerators ==
  {"classifyTwoGaussData", "classifySpiralData", "classifyCircleData"}
\* The generators whose loop runs while i < numSamples.
FullGenerators == {"classifyXORData", "regressPlane", "regressGaussian"}
\* The generators built on makeClassifyDataWithLines.
GlyphGenerators == {"classifyOxtuData", "classifyJavaData"}
LineGenerators == GlyphGenerators \cup {"makeClassifyDataWithLines"}
ClassifyGenerators ==
  HalfGenerators \cup {"classifyXORData"} \cup GlyphGenerators
Generators == HalfGenerators \cup FullGenerators \cup GlyphGenerators

\* The points getLabel is asked about: the half-unit grid of [-6, 6] x [-6, 6].
QueryCoords == {500 * k : k \in -12 .. 12}

\* genGauss: x before normalRandom has returned it.
NoX == [nan |-> FALSE, mean |-> 0, side |-> 0]

\* The locals of the functions not called.
NoShuffle == array = <<>> /\ counter = 0 /\ input = <<>> /\ choices = <<>>
NoLines == propIdx = 0 /\ num = 0 /\ j = 0
NoLabel == q = [x |-> 0, y |-> 0] /\ label = ZeroLabel

Init ==
  /\ points = <<>> /\ i = 0 /\ phase = 1
  /\ v1 = -1 /\ v2 = -1 /\ s = -1 /\ x = NoX
  /\ \/ \* shuffle(array)
        /\ gen = "shuffle" /\ numSamples = 0 /\ noise = 0
        /\ randomValues = Twentyfourths
        /\ array \in SeqsUpTo(Elements, MaxLen)
        /\ input = array /\ counter = Len(array) /\ choices = <<>>
        /\ props = <<>> /\ NoLines /\ NoLabel
        /\ pc = "loop"
     \/ \* a generator, any sequence of random values out of two quarters
        /\ gen \in Generators \cup {"makeClassifyDataWithLines"}
        /\ numSamples \in -MaxSamples .. MaxSamples
        /\ noise \in Noises
        /\ randomValues \in {S \in SUBSET Quarters : Cardinality(S) = 2}
        /\ props \in IF gen = "makeClassifyDataWithLines"
                       THEN {OneThreeProps, ThirdsProps} ELSE {<<>>}
        /\ NoShuffle /\ NoLines /\ NoLabel
        /\ pc = IF gen \in GlyphGenerators THEN "call"
                ELSE IF gen \in LineGenerators THEN "lines" ELSE "loop"
     \/ \* a line-based generator, more samples, a constant random value
        /\ gen \in LineGenerators
        /\ numSamples \in (MaxSamples + 1 .. MaxLineSamples) \cup {100}
        /\ noise \in Noises
        /\ randomValues \in {{k} : k \in Quarters}
        /\ props \in IF gen = "makeClassifyDataWithLines"
                       THEN {OneThreeProps, ThirdsProps} ELSE {<<>>}
        /\ NoShuffle /\ NoLines /\ NoLabel
        /\ pc = IF gen \in GlyphGenerators THEN "call" ELSE "lines"
     \/ \* getLabel(x, y) of regressGaussian
        /\ gen = "getLabel" /\ numSamples = 0 /\ noise = 0
        /\ randomValues = Quarters
        /\ q \in [x : QueryCoords, y : QueryCoords] /\ label = ZeroLabel
        /\ props = <<>> /\ NoShuffle /\ NoLines
        /\ pc = "loop"

\* ---------------------------------------------------------------- shuffle

\* The body of `while (counter > 0)`.
ShuffleStep ==
  /\ gen = "shuffle" /\ pc = "loop" /\ counter > 0
  /\ \E k \in randomValues :
       LET index == RandomIndex(k, counter, array) IN
       /\ counter' = counter - 1
       /\ array' = Swap(array, counter - 1, index)
       /\ choices' = Append(choices, index)
  /\ UNCHANGED <<callVars, pc, points, i, phase, input, normalVars, lineVars, labelVars>>

\* The loop's exit.
ShuffleReturn ==
  /\ gen = "shuffle" /\ pc = "loop" /\ ~(counter > 0)
  /\ pc' = "done"
  /\ UNCHANGED <<callVars, points, i, phase, shuffleVars, normalVars, lineVars, labelVars>>

\* --------------------------------------------------- classifyTwoGaussData

\* genGauss(2, 2, 1) is the first call, genGauss(-2, -2, -1) the second.
GenGaussArgs(ph) ==
  IF ph = 1 THEN [cx |-> 2000, cy |-> 2000, label |-> 1]
  ELSE [cx |-> -2000, cy |-> -2000, label |-> -1]

\* genGauss: the loop test holds, normalRandom(cx, variance) is called.
GenGaussIter ==
  /\ gen = "classifyTwoGaussData" /\ pc = "loop"
  /\ LessThanHalf(i, numSamples)
  /\ pc' = "normalX"
  /\ UNCHANGED <<callVars, points, i, phase, shuffleVars, normalVars, lineVars, labelVars>>

\* normalRandom: one pass of the do-while whose test `s > 1` holds.
NormalRandomReject ==
  /\ pc \in {"normalX", "normalY"}
  /\ \E k1 \in randomValues, k2 \in randomValues :
       LET w1 == 2 * k1 - 24
           w2 == 2 * k2 - 24
           w == w1 * w1 + w2 * w2
       IN  /\ Rejected(w)
           /\ v1' = w1 /\ v2' = w2 /\ s' = w
  /\ UNCHANGED <<callVars, pc, points, i, phase, shuffleVars, x, lineVars, labelVars>>

\* normalRandom: the pass of the do-while whose test fails, and the return to
\* genGauss, which draws y after x and pushes the point after y.
NormalRandomAccept ==
  /\ pc \in {"normalX", "normalY"}
  /\ \E k1 \in randomValues, k2 \in randomValues :
       LET w1 == 2 * k1 - 24
           w2 == 2 * k2 - 24
           w == w1 * w1 + w2 * w2
           c == GenGaussArgs(phase)
       IN  /\ ~Rejected(w)
           /\ v1' = w1 /\ v2' = w2 /\ s' = w
           /\ IF pc = "normalX"
                THEN /\ x' = NormalValue(c.cx, Variance(noise), w1, w)
                     /\ pc' = "normalY"
                     /\ UNCHANGED <<points, i>>
                ELSE /\ points' = Append(points,
                            [x |-> x,
                             y |-> NormalValue(c.cy, Variance(noise), w1, w),
                             label |-> c.label])
                     /\ i' = i + 1
                     /\ x' = NoX
                     /\ pc' = "loop"
  /\ UNCHANGED <<callVars, phase, shuffleVars, lineVars, labelVars>>

\* The exit of a loop `i < numSamples / 2`: the first is followed by the second
\* (genGauss and genSpiral are called twice, classifyCircleData has two loops),
\* the second by `return points`.
HalfLoopEnd ==
  /\ gen \in HalfGenerators /\ pc = "loop"
  /\ ~LessThanHalf(i, numSamples)
  /\ IF phase = 1
       THEN phase' = 2 /\ i' = 0 /\ pc' = pc
       ELSE pc' = "done" /\ UNCHANGED <<phase, i>>
  /\ UNCHANGED <<callVars, points, shuffleVars, normalVars, lineVars, labelVars>>

\* ------------------------------------------------------ classifySpiralData

\* genSpiral(0, 1) is the first call, genSpiral(Math.PI, -1) the second; deltaT is
\* kept in twenty-fourths of a turn.
GenSpiralArgs(ph) ==
  IF ph = 1 THEN [deltaT |-> 0, label |-> 1] ELSE [deltaT |-> 12, label |-> -1]

\* r * Math.sin(t) + nz (fn = "sin") or r * Math.cos(t) + nz (fn = "cos"), for
\* n = n2 / 2, r = idx / n * 5 and t = 1.75 * idx / n * 2 * PI + deltaT: kept as
\* the numbers it is computed from.
SpiralCoord(fn, idx, n2, deltaT, nz) ==
  [fn |-> fn, i |-> idx, numSamples |-> n2, deltaT |-> deltaT, noise |-> nz]

\* genSpiral: one pass of its loop.
GenSpiralPoint ==
  /\ gen = "classifySpiralData" /\ pc = "loop"
  /\ LessThanHalf(i, numSamples)
  /\ \E k1 \in randomValues, k2 \in randomValues :
       LET a == GenSpiralArgs(phase)
           nx == TimesNoise(RandUniform(k1, -1000, 1000), noise)
           ny == TimesNoise(RandUniform(k2, -1000, 1000), noise)
       IN  points' = Append(points,
             [x |-> SpiralCoord("sin", i, numSamples, a.deltaT, nx),
              y |-> SpiralCoord("cos", i, numSamples, a.deltaT, ny),
              label |-> a.label])
  /\ i' = i + 1
  /\ UNCHANGED <<callVars, pc, phase, shuffleVars, normalVars, lineVars, labelVars>>

\* ------------------------------------------------------ classifyCircleData

\* One pass of a loop of classifyCircleData, r drawn from [lo, hi).
CirclePoint(lo, hi) ==
  \E k1 \in randomValues, k2 \in randomValues,
     k3 \in randomValues, k4 \in randomValues :
    LET r == RandUniform(k1, lo, hi)
        px == r * Sin(k2)
        py == r * Cos(k2)
        noiseX == TimesNoise(RandUniform(k3, -radius, radius), noise)
        noiseY == TimesNoise(RandUniform(k4, -radius, radius), noise)
        lab == GetCircleLabel([x |-> px + noiseX, y |-> py + noiseY],
                              [x |-> 0, y |-> 0])
    IN  points' = Append(points, [x |-> px, y |-> py, label |-> lab])

\* "Generate positive points inside the circle."
CirclePositive ==
  /\ gen = "classifyCircleData" /\ pc = "loop" /\ phase = 1
  /\ LessThanHalf(i, numSamples)
  /\ CirclePoint(0, radius \div 2)
  /\ i' = i + 1
  /\ UNCHANGED <<callVars, pc, phase, shuffleVars, normalVars, lineVars, labelVars>>

\* "Generate negative points outside the circle."
CircleNegative ==
  /\ gen = "classifyCircleData" /\ pc = "loop" /\ phase = 2
  /\ LessThanHalf(i, numSamples)
  /\ CirclePoint((radius * 7) \div 10, radius)
  /\ i' = i + 1
  /\ UNCHANGED <<callVars, pc, phase, shuffleVars, normalVars, lineVars, labelVars>>

\* --------------------------------- classifyXORData, regressPlane, regressGaussian

\* classifyXORData: one pass of its loop.
XORPoint ==
  /\ gen = "classifyXORData" /\ pc = "loop"
  /\ LessThan(i, numSamples)
  /\ \E k1 \in randomValues, k2 \in randomValues,
        k3 \in randomValues, k4 \in randomValues :
       LET px == Padded(RandUniform(k1, -5000, 5000))
           py == Padded(RandUniform(k2, -5000, 5000))
           noiseX == TimesNoise(RandUniform(k3, -5000, 5000), noise)
           noiseY == TimesNoise(RandUniform(k4, -5000, 5000), noise)
           lab == GetXORLabel([x |-> px + noiseX, y |-> py + noiseY])
       IN  points' = Append(points, [x |-> px, y |-> py, label |-> lab])
  /\ i' = i + 1
  /\ UNCHANGED <<callVars, pc, phase, shuffleVars, normalVars, lineVars, labelVars>>

\* regressPlane, regressGaussian: radius.
regressRadius == 6000

\* regressPlane: one pass of its loop.
PlanePoint ==
  /\ gen = "regressPlane" /\ pc = "loop"
  /\ LessThan(i, numSamples)
  /\ \E k1 \in randomValues, k2 \in randomValues,
        k3 \in randomValues, k4 \in randomValues :
       LET px == RandUniform(k1, -regressRadius, regressRadius)
           py == RandUniform(k2, -regressRadius, regressRadius)
           noiseX == TimesNoise(RandUniform(k3, -regressRadius, regressRadius), noise)
           noiseY == TimesNoise(RandUniform(k4, -regressRadius, regressRadius), noise)
           lab == PlaneLabel(px + noiseX, py + noiseY)
       IN  points' = Append(points, [x |-> px, y |-> py, label |-> lab])
  /\ i' = i + 1
  /\ UNCHANGED <<callVars, pc, phase, shuffleVars, normalVars, lineVars, labelVars>>

\* regressGaussian: one pass of its loop.
GaussianPoint ==
  /\ gen = "regressGaussian" /\ pc = "loop"
  /\ LessThan(i, numSamples)
  /\ \E k1 \in randomValues, k2 \in randomValues,
        k3 \in randomValues, k4 \in randomValues :
       LET px == RandUniform(k1, -regressRadius, regressRadius)
           py == RandUniform(k2, -regressRadius, regressRadius)
           noiseX == TimesNoise(RandUniform(k3, -regressRadius, regressRadius), noise)
           noiseY == TimesNoise(RandUniform(k4, -regressRadius, regressRadius), noise)
           lab == GetLabel(px + noiseX, py + noiseY)
       IN  points' = Append(points, [x |-> px, y |-> py, label |-> lab])
  /\ i' = i + 1
  /\ UNCHANGED <<callVars, pc, phase, shuffleVars, normalVars, lineVars, labelVars>>

\* The exit of a loop `i < numSamples`, and `return points`.
FullLoopEnd ==
  /\ gen \in FullGenerators /\ pc = "loop"
  /\ ~LessThan(i, numSamples)
  /\ pc' = "done"
  /\ UNCHANGED <<callVars, points, i, phase, shuffleVars, normalVars, lineVars, labelVars>>

\* regressGaussian: a call of getLabel(x, y).
GetLabelCall ==
  /\ gen = "getLabel" /\ pc = "loop"
  /\ label' = GetLabel(q.x, q.y)
  /\ pc' = "done"
  /\ UNCHANGED <<callVars, points, i, phase, shuffleVars, normalVars, lineVars, q>>

\* ------------------------------------------------ makeClassifyDataWithLines

\* classifyOxtuData: the call makeClassifyDataWithLines(numSamples, noise, props).
ClassifyOxtuData ==
  /\ gen = "classifyOxtuData" /\ pc = "call"
  /\ props' = OxtuProps
  /\ pc' = "lines"
  /\ UNCHANGED <<callVars, points, i, phase, shuffleVars, normalVars, propIdx, num, j, labelVars>>

\* classifyJavaData: the call makeClassifyDataWithLines(numSamples, noise, props).
ClassifyJavaData ==
  /\ gen = "classifyJavaData" /\ pc = "call"
  /\ props' = JavaProps
  /\ pc' = "lines"
  /\ UNCHANGED <<callVars, points, i, phase, shuffleVars, normalVars, propIdx, num, j, labelVars>>

\* `for (let prop of props)`: the next descriptor, and its num.
LinesNextProp ==
  /\ gen \in LineGenerators /\ pc = "lines"
  /\ propIdx < Len(props)
  /\ propIdx' = propIdx + 1
  /\ num' = Quota(props[propIdx + 1], props, numSamples)
  /\ j' = 0
  /\ pc' = "linePoints"
  /\ UNCHANGED <<callVars, points, i, phase, shuffleVars, normalVars, props, labelVars>>

\* One pass of `for (let j = 0; j < num; j++)`.
LinePoint ==
  /\ gen \in LineGenerators /\ pc = "linePoints"
  /\ LessThan(j, num)
  /\ \E k1 \in randomValues, k2 \in randomValues, k3 \in randomValues :
       LET prop == props[propIdx]
           p == RandOnLine(k1, prop.p0, prop.p1)
           noiseX == TimesNoise(RandUniform(k2, -randRadius, randRadius), noise)
           noiseY == TimesNoise(RandUniform(k3, -randRadius, randRadius), noise)
       IN  points' = Append(points,
             [x |-> p.x + noiseX, y |-> p.y + noiseY, label |-> prop.label])
  /\ j' = j + 1
  /\ UNCHANGED <<callVars, pc, i, phase, shuffleVars, normalVars, props, propIdx, num, labelVars>>

\* The exit of the loop over j.
LinePropEnd ==
  /\ gen \in LineGenerators /\ pc = "linePoints"
  /\ ~LessThan(j, num)
  /\ pc' = "lines"
  /\ UNCHANGED <<callVars, points, i, phase, shuffleVars, normalVars, lineVars, labelVars>>

\* The exit of the loop over props, and `return points`.
LinesReturn ==
  /\ gen \in LineGenerators /\ pc = "lines"
  /\ ~(propIdx < Len(props))
  /\ pc' = "done"
  /\ UNCHANGED <<callVars, points, i, phase, shuffleVars, normalVars, lineVars, labelVars>>

\* ------------------------------------------------------------ specification

Next ==
  \/ ShuffleStep
  \/ ShuffleReturn
  \/ GenGaussIter
  \/ NormalRandomReject
  \/ NormalRandomAccept
  \/ HalfLoopEnd
  \/ GenSpiralPoint
  \/ CirclePositive
  \/ CircleNegative
  \/ XORPoint
  \/ PlanePoint
  \/ GaussianPoint
  \/ FullLoopEnd
  \/ GetLabelCall
  \/ ClassifyOxtuData
  \/ ClassifyJavaData
  \/ LinesNextProp
  \/ LinePoint
  \/ LinePropEnd
  \/ LinesReturn

Spec == Init /\ [][Next]_vars

\* Every call runs on, and a random source that is fair yields, sooner or later, a
\* pair that normalRandom accepts.
FairSpec == Spec /\ WF_vars(Next) /\ WF_vars(NormalRandomAccept)

\* ------------------------------------------------------------------ claims

Returned == pc = "done"
PointsOf == {points[k] : k \in 1 .. Len(points)}

C2_ShufflePermutes ==
  gen = "shuffle"
    => /\ Len(array) = Len(input)
       /\ BagOfSeq(array) = BagOfSeq(input)
       /\ Len(input) <= 1 => array = input

\* C2 witness: shuffle has returned, having changed an array of three elements.
C2_Witness ==
  gen = "shuffle" /\ Returned /\ Len(input) = 3 /\ array # input

\* floor(r * n / total), stated without the division the code uses.
FloorShare(r, total, n) ==
  CHOOSE m \in 0 .. n : m * total <= r * n /\ r * n < (m + 1) * total

RECURSIVE SumOfShares(_, _, _)
SumOfShares(ps, total, n) ==
  IF ps = <<>> THEN 0
  ELSE FloorShare(Head(ps).ratio, total, n) + SumOfShares(Tail(ps), total, n)

C4_LoopExitsWithPositiveS ==
  (gen = "classifyTwoGaussData" /\ pc \notin {"normalX", "normalY"} /\ s # -1)
    => (0 < s /\ s <= 576)

\* C5: with noise = 0, every example of classifyXORData has label +1 if x * y >= 0
\* and -1 otherwise, every example of classifyCircleData has label +1 if (x, y) is
\* nearer than 2.5 to the origin and -1 otherwise, and every example of
\* classifySpiralData has label +1 on the arm with deltaT = 0 and -1 on the arm with
\* deltaT = PI.
C5_NoiselessLabelsFollowGeometry ==
  noise = 0
    => \A p \in PointsOf :
         /\ gen = "classifyXORData"
              => p.label = (IF p.x * p.y >= 0 THEN 1 ELSE -1)
         /\ gen = "classifyCircleData"
              => p.label = (IF p.x * p.x + p.y * p.y < 2500 * 2500 THEN 1 ELSE -1)
         /\ gen = "classifySpiralData"
              => /\ p.x.deltaT = p.y.deltaT
                 /\ p.label = (IF p.x.deltaT = 0 THEN 1 ELSE -1)

\* C5 witness: classifyCircleData(2, 0) has returned one example of each label.
C5_Witness ==
  /\ gen = "classifyCircleData" /\ noise = 0 /\ numSamples = 2 /\ Returned
  /\ Len(points) = 2 /\ points[1].label = 1 /\ points[2].label = -1

\* C6: every example of the six classification generators has label -1 or +1.
C6_LabelsArePlusOrMinusOne ==
  gen \in ClassifyGenerators => \A p \in PointsOf : p.label \in {-1, 1}

\* C6 witness: classifyCircleData has returned examples of both labels under noise.
C6_Witness ==
  /\ gen = "classifyCircleData" /\ noise # 0 /\ Returned
  /\ \E p \in PointsOf : p.label = 1
  /\ \E p \in PointsOf : p.label = -1

\* The contribution of center g at (px, py), and the centers (px, py) lies on.
Contribution(g, px, py) ==
  ScaledLabel(gaussians[g][3],
              (px - gaussians[g][1]) * (px - gaussians[g][1])
                + (py - gaussians[g][2]) * (py - gaussians[g][2]))
CentersAt(px, py) ==
  {g \in 1 .. Len(gaussians) : gaussians[g][1] = px /\ gaussians[g][2] = py}

\* The label is the contribution of largest absolute value (least clamped
\* distance), and 0 when every contribution is 0.
IsMaxAbsContribution(lab, px, py) ==
  /\ \A g \in 1 .. Len(gaussians) : Contribution(g, px, py).d2 >= lab.d2
  /\ \/ \E g \in 1 .. Len(gaussians) : lab = Contribution(g, px, py)
     \/ lab = ZeroLabel
  /\ lab.d2 = 2000 * 2000 => lab = ZeroLabel

\* C7: getLabel at a point that is one of the six centers returns that center's
\* sign times 1, every other center contributing strictly less in absolute value;
\* at any point it returns the contribution of largest absolute value, and so
\* does every label of regressGaussian with noise = 0 at its example's (x, y).
C7_LabelIsMaxAbsContribution ==
  /\ (gen = "getLabel" /\ Returned)
       => /\ IsMaxAbsContribution(label, q.x, q.y)
          /\ \A g \in CentersAt(q.x, q.y) :
               /\ label = [sign |-> gaussians[g][3], d2 |-> 0]
               /\ \A h \in 1 .. Len(gaussians) :
                    h # g => Contribution(h, q.x, q.y).d2 > 0
  /\ (gen = "regressGaussian" /\ noise = 0)
       => \A p \in PointsOf : IsMaxAbsContribution(p.label, p.x, p.y)

\* C7 witness: getLabel(0, 2.5), at the center of sign -1, has returned -1 * 1.
C7_Witness ==
  /\ gen = "getLabel" /\ Returned /\ q = [x |-> 0, y |-> 2500]
  /\ label = [sign |-> -1, d2 |-> 0]

\* The number of passes a generator's sample loops may make.
PassBound == IF numSamples < 0 THEN 0 ELSE numSamples

\* C8: every call returns (under FairSpec: the random source yields, sooner or
\* later, a pair that normalRandom accepts), and no sample loop makes more than
\* numSamples passes.
C8_EveryCallReturns ==
  /\ [](i <= PassBound /\ j <= PassBound /\ Len(points) <= PassBound + 1)
  /\ <>Returned

\* C8 witness: classifyTwoGaussData(2, noise) has returned its two examples, four
\* calls of normalRandom having left their loops.
C8_Witness ==
  /\ gen = "classifyTwoGaussData" /\ numSamples = 2 /\ Returned
  /\ Len(points) = 2 /\ s \in 0 .. 576

\* The choice sequences of a shuffle of n elements: the k-th in [0, n - k].
ChoiceSeqs(n) == {c \in [1 .. n -> 0 .. n - 1] : \A k \in 1 .. n : c[k] <= n - k}

\* The array after the first m choices of c: the k-th swaps positions n - k and
\* c[k] (0-based).
RECURSIVE Replay(_, _, _)
Replay(a, c, m) ==
  IF m = 0 THEN a
  ELSE LET b == Replay(a, c, m - 1)
           hi == Len(a) - m + 1
           lo == c[m] + 1
       IN  [k \in 1 .. Len(a) |->
              IF k = hi THEN b[lo] ELSE IF k = lo THEN b[hi] ELSE b[k]]

RECURSIVE Factorial(_)
Factorial(n) == IF n <= 1 THEN 1 ELSE n * Factorial(n - 1)

\* C9: shuffle makes one index choice per element, the k-th in [0, counter) for
\* counter = n - k + 1, every index of that range being possible, and swaps
\* positions counter - 1 and the index; for distinct elements the map from choice
\* sequences to final arrays is one-to-one and onto the n! permutations.
C9_ShuffleIsBijective ==
  gen = "shuffle"
    => LET n == Len(input) IN
       /\ Len(choices) = n - counter
       /\ \A k \in 1 .. Len(choices) : choices[k] \in 0 .. n - k
       /\ array = Replay(input, choices, Len(choices))
       /\ counter > 0
            => {RandomIndex(r, counter, array) : r \in randomValues} = 0 .. counter - 1
       /\ (Returned /\ Cardinality({input[k] : k \in 1 .. n}) = n)
            => /\ Len(choices) = n
               /\ \A c \in ChoiceSeqs(n) :
                    Replay(input, c, n) = array => c = choices
               /\ Cardinality({Replay(input, c, n) : c \in ChoiceSeqs(n)})
                    = Factorial(n)

\* C9 witness: shuffle has turned <<1, 2, 3>> into <<2, 3, 1>>.
C9_Witness ==
  /\ gen = "shuffle" /\ Returned
  /\ input = <<1, 2, 3>> /\ array = <<2, 3, 1>>

\* C10: for numSamples <= 0 every generator returns an empty array (and pushes no
\* example on the way).
C10_NoSamplesNoPoints ==
  (gen \in Generators /\ numSamples <= 0) => points = <<>>

\* C10 witness: classifyXORData has returned for a negative numSamples.
C10_Witness ==
  gen = "classifyXORData" /\ numSamples < 0 /\ Returned /\ points = <<>>

====
